---- MODULE Spec2Model ----
(***************************************************************************)
(* Model of kfto_mnist.py: the distributed MNIST training driver.          *)
(* One operating-system process per rank runs main(parameters):            *)
(*   ddp_setup -> load_train_objs -> Trainer.__init__ -> Trainer.train     *)
(*   -> dist.destroy_process_group.                                        *)
(* The processes share one file, snapshot_path, and meet at collectives    *)
(* (the DistributedDataParallel constructor and one gradient all-reduce    *)
(* per batch).  A later run (a relaunch of the job) finds the file the     *)
(* earlier run left behind.                                                *)
(***************************************************************************)
EXTENDS Integers, Sequences, FiniteSets, TLC

(* ---------------------------------------------------------------- bounds *)
MaxEpochs == 2          \* parameters["epochs"] ranges over 1..MaxEpochs
MaxSaveEvery == 2       \* parameters["save_every"] ranges over 1..MaxSaveEvery
MaxWorld == 2           \* number of participating processes: 1..MaxWorld
MaxDevices == 1         \* torch.cuda.device_count() ranges over 0..MaxDevices
MaxLocalRank == 1       \* LOCAL_RANK, when exported, ranges over 0..MaxLocalRank
MaxStoredEpoch == 2     \* EPOCHS_RUN of a snapshot found at first launch: 0..MaxStoredEpoch
NumBatches == 2         \* len(self.train_data): batches per epoch on each rank
MaxRuns == 2            \* launches of the job against the same snapshot_path

(* ------------------------------------------------------- state variables *)
VARIABLES
    parameters,     \* [epochs, save_every, backend]: the dict passed to main
    environ,        \* environ[p]: os.environ of process p: [RANK, LOCAL_RANK], each {} or {v}
    num_devices,    \* torch.cuda.device_count(); torch.cuda.is_available() iff > 0
    dataset_ok,     \* whether MNIST(dataset_path, download=True) can obtain the dataset
    bad_data,       \* {}: clean dataset; {[rank, batch]}: the batch of that rank's partition the model cannot take
    snapshot_file,  \* the file at snapshot_path
    launch_file,    \* the file as the current launch found it
    run,            \* number of the current launch, 1..MaxRuns
    history,        \* what the earlier launches did (one record per launch)
    pc,             \* pc[p]: position of process p in main
    cuda_device,    \* cuda_device[p]: {} or {d}: device bound by torch.cuda.set_device
    process_group,  \* process_group[p]: [state, backend, destroyed]
    trainer,        \* trainer[p]: the fields of the Trainer object of process p
    model,          \* model[p]: [wrapped, params, grad]: self.model and its gradient
    epoch,          \* epoch[p]: loop variable of Trainer.train
    batch,          \* batch[p]: index of the batch within the epoch
    log,            \* log[p]: set of [level, msg] records emitted by logger
    addressed,      \* addressed[p]: device indices process p has bound or addressed
    ran,            \* ran[p]: epoch indices whose _run_epoch process p has started
    completed,      \* completed[p]: epoch indices whose _run_epoch has returned
    writes          \* writes[p]: epochs for which p has opened snapshot_path for writing

vars == <<parameters, environ, num_devices, dataset_ok, bad_data, snapshot_file, launch_file, run, history, pc,
          cuda_device, process_group, trainer, model, epoch, batch, log,
          addressed, ran, completed, writes>>

(* ------------------------------------------------------ values and types *)
Procs == DOMAIN environ

CPU == [type |-> "cpu", index |-> 0]
Cuda(i) == [type |-> "cuda", index |-> i]

\* No file at snapshot_path.
NoFile == [exists |-> FALSE, readable |-> FALSE, fields |-> {}, keys |-> "plain",
           MODEL_STATE |-> 0, EPOCHS_RUN |-> 0]

\* snapshot_path opened for writing by torch.save and not yet completely written.
PartialFile == [exists |-> TRUE, readable |-> FALSE, fields |-> {}, keys |-> "plain",
                MODEL_STATE |-> 0, EPOCHS_RUN |-> 0]

\* A file that is not a torch archive at all.
CorruptFile == PartialFile

\* The dict {"MODEL_STATE": ..., "EPOCHS_RUN": ...} completely written.
SnapshotFile(keys, state, epochs_run) ==
    [exists |-> TRUE, readable |-> TRUE, fields |-> {"MODEL_STATE", "EPOCHS_RUN"},
     keys |-> keys, MODEL_STATE |-> state, EPOCHS_RUN |-> epochs_run]

\* The trainer variable of main before Trainer(...) has returned.
NoTrainer == [built |-> FALSE, local_rank |-> 0, global_rank |-> 0, epochs_run |-> 0,
              device |-> CPU]

NoGroup == [state |-> "none", backend |-> "none", destroyed |-> 0]

Record(level, msg) == [level |-> level, msg |-> msg]

(* ------------------------------------------------------------- helpers *)
\* torch.cuda.is_available()
cuda_is_available == num_devices > 0

\* os.environ.get(key, default) on the environment of one process
environ_get(env, key, default) ==
    IF env[key] = {} THEN default ELSE CHOOSE v \in env[key] : TRUE

\* The test "torch.cuda.is_available() and backend == 'nccl'" of ddp_setup,
\* Trainer.__init__ and _run_epoch.
use_cuda == cuda_is_available /\ parameters.backend = "nccl"

\* Net(): every process draws its own random initial parameters.
Net(p) == [wrapped |-> FALSE, params |-> p + 1, grad |-> 0]

\* The key schema of the state dict _save_snapshot stores: the DDP wrapper
\* prefixes every key with "module."; self.model.module is the bare Net.
state_dict_keys(m) ==
    IF cuda_is_available THEN "plain"
    ELSE IF m.wrapped THEN "wrapped" ELSE "plain"

\* Whether model.load_state_dict (strict) accepts a state dict with these keys.
load_state_dict_ok(m, keys) == keys = (IF m.wrapped THEN "wrapped" ELSE "plain")

\* The gradient loss.backward() computes on the batch of rank p's partition.
local_grad(p) == p + 1

RECURSIVE SumGrad(_, _)
SumGrad(m, S) ==
    IF S = {} THEN 0
    ELSE LET q == CHOOSE x \in S : TRUE IN m[q].grad + SumGrad(m, S \ {q})

\* Mutant of range_start: the loop resumes one epoch late.
range_start_next(epochs_run) == epochs_run + 1

\* for epoch in range(self.epochs_run, max_epochs): the first index
range_start(epochs_run) == epochs_run

\* for epoch in range(self.epochs_run, max_epochs): is there an epoch `e` to run
range_has(e, max_epochs) == e < max_epochs

\* Mutant of save_due: the save_every test is dropped.
save_due_every_epoch(global_rank, e, save_every) == global_rank = 0

\* Mutant of save_due: the rank test is dropped.
save_due_any_rank(global_rank, e, save_every) == e % save_every = 0

\* The condition under which Trainer.train saves after an epoch.
save_due(global_rank, e, save_every) == global_rank = 0 /\ e % save_every = 0

(* ---------------------------------------------------------------- Init *)
Backends == {"gloo", "nccl"}

StoredFiles ==
    {NoFile, CorruptFile}
    \cup {[SnapshotFile("plain", 0, 0) EXCEPT !.fields = {f}] : f \in {"MODEL_STATE", "EPOCHS_RUN"}}
    \cup {SnapshotFile(k, 0, e) : k \in {"plain", "wrapped"}, e \in 0..MaxStoredEpoch}

\* Environments as a launcher exports them: RANK = index of the process.
LaunchedEnv(w) == [p \in 0..(w - 1) |-> [RANK |-> {p}, LOCAL_RANK |-> {0}]]

\* Every environment a launcher can export: RANK (the index of the process) to
\* every process or to none, LOCAL_RANK to none or to each any of 0..MaxLocalRank.
AnyEnv(w) ==
    {[p \in 0..(w - 1) |-> [RANK |-> IF r THEN {p} ELSE {}, LOCAL_RANK |-> L[p]]] :
        r \in BOOLEAN,
        L \in [0..(w - 1) -> {{l} : l \in 0..MaxLocalRank}] \cup {[p \in 0..(w - 1) |-> {}]}}

InitProcess ==
    /\ run = 1
    /\ history = <<>>
    /\ launch_file = snapshot_file
    /\ pc = [p \in Procs |-> "ddp_setup"]
    /\ cuda_device = [p \in Procs |-> {}]
    /\ process_group = [p \in Procs |-> NoGroup]
    /\ trainer = [p \in Procs |-> NoTrainer]
    /\ model = [p \in Procs |-> Net(p)]
    /\ epoch = [p \in Procs |-> 0]
    /\ batch = [p \in Procs |-> 0]
    /\ log = [p \in Procs |-> {}]
    /\ addressed = [p \in Procs |-> {}]
    /\ ran = [p \in Procs |-> <<>>]
    /\ completed = [p \in Procs |-> <<>>]
    /\ writes = [p \in Procs |-> <<>>]

\* The training inputs in full (epochs, save_every, backend, device count,
\* dataset availability, the file found at snapshot_path), clean data,
\* well-formed environment.
InitTraining ==
    /\ \E w \in 1..MaxWorld : environ = LaunchedEnv(w)
    /\ dataset_ok \in BOOLEAN
    /\ bad_data = {}
    /\ parameters \in [epochs : 1..MaxEpochs, save_every : 1..MaxSaveEvery, backend : Backends]
    /\ num_devices \in 0..MaxDevices
    /\ snapshot_file \in StoredFiles
    /\ InitProcess

\* A malformed batch anywhere in any rank's partition, with no snapshot or a
\* loadable one at snapshot_path.
InitBadData ==
    /\ \E w \in 1..MaxWorld :
          /\ environ = LaunchedEnv(w)
          /\ bad_data \in {{[rank |-> r, batch |-> b]} :
                              r \in 0..(w - 1), b \in 0..(NumBatches - 1)}
    /\ dataset_ok = TRUE
    /\ parameters \in [epochs : 1..MaxEpochs, save_every : 1..MaxSaveEvery, backend : Backends]
    /\ num_devices \in 0..MaxDevices
    /\ snapshot_file \in {NoFile, SnapshotFile("plain", 0, 0)}
    /\ InitProcess

\* Every environment and device count, for one short training run.
InitDevices ==
    /\ \E w \in 1..MaxWorld : environ \in AnyEnv(w)
    /\ dataset_ok = TRUE
    /\ bad_data = {}
    /\ parameters \in [epochs : {1}, save_every : {1}, backend : Backends]
    /\ num_devices \in 0..MaxDevices
    /\ snapshot_file \in {NoFile, SnapshotFile("plain", 0, 0)}
    /\ InitProcess

Init == InitTraining \/ InitBadData \/ InitDevices

(* ------------------------------------------------------------- actions *)
\* An uncaught exception: the interpreter unwinds main and the process exits.
Raise(p) == pc' = [pc EXCEPT ![p] = "failed"]

\* ddp_setup(backend): bind the device, initialise the process group.
ddp_setup(p) ==
    /\ pc[p] = "ddp_setup"
    /\ IF use_cuda
       THEN LET device == environ_get(environ[p], "LOCAL_RANK", 0)
                bound == IF device >= num_devices THEN 0 ELSE device
            IN /\ log' = [log EXCEPT ![p] = @ \cup
                             (IF device >= num_devices
                              THEN {Record("WARNING", "invalid_device_ordinal")}
                              ELSE {})]
               /\ cuda_device' = [cuda_device EXCEPT ![p] = {bound}]
               /\ addressed' = [addressed EXCEPT ![p] = @ \cup {bound}]
               /\ process_group' = [process_group EXCEPT ![p] =
                      [state |-> "initialized", backend |-> parameters.backend,
                       destroyed |-> 0]]
       ELSE /\ log' = [log EXCEPT ![p] = @ \cup {Record("INFO", "no_gpu_fallback_cpu")}]
            /\ process_group' = [process_group EXCEPT ![p] =
                   [state |-> "initialized", backend |-> "gloo", destroyed |-> 0]]
            /\ UNCHANGED <<cuda_device, addressed>>
    /\ pc' = [pc EXCEPT ![p] = "load_train_objs"]
    /\ UNCHANGED <<parameters, environ, num_devices, dataset_ok, bad_data, snapshot_file, launch_file,
                   run, history, trainer, model, epoch, batch, ran, completed, writes>>

\* load_train_objs and prepare_dataloader: MNIST(...) raises when the dataset
\* cannot be obtained.
load_train_objs(p) ==
    /\ pc[p] = "load_train_objs"
    /\ IF dataset_ok
       THEN /\ model' = [model EXCEPT ![p] = Net(p)]
            /\ pc' = [pc EXCEPT ![p] = "Trainer"]
       ELSE /\ Raise(p)
            /\ UNCHANGED model
    /\ UNCHANGED <<parameters, environ, num_devices, dataset_ok, bad_data, snapshot_file, launch_file,
                   run, history, cuda_device, process_group, trainer, epoch, batch, log,
                   addressed, ran, completed, writes>>

\* os.environ.get(key, 0) in place of os.environ[key]: never raises.
environ_index_never_raises(env, key) == FALSE

\* os.environ[key] raises KeyError when the variable is absent.
environ_index_raises(env, key) == env[key] = {}

\* The local rank Trainer.__init__ reads.
trainer_local_rank(p) == environ_get(environ[p], "LOCAL_RANK", -1)

\* The device Trainer.__init__ selects.
trainer_device(p) == IF use_cuda THEN Cuda(trainer_local_rank(p)) ELSE CPU

\* Whether a tensor can be placed on the device.
device_ok(d) == d.type = "cpu" \/ (0 <= d.index /\ d.index < num_devices)

\* A _load_snapshot that reads the epoch count with snapshot.get("EPOCHS_RUN", 0)
\* and skips weights that are not in the file.
load_snapshot_lenient(m, f, d) ==
    IF ~f.readable THEN [stage |-> "torch.load", model |-> m, epochs_run |-> 0, touched |-> {}]
    ELSE [stage |-> "done",
          model |-> IF "MODEL_STATE" \in f.fields THEN [m EXCEPT !.params = f.MODEL_STATE]
                    ELSE m,
          epochs_run |-> IF "EPOCHS_RUN" \in f.fields THEN f.EPOCHS_RUN ELSE 0,
          touched |-> {}]

\* _load_snapshot: the outcome of loading file f into model m on device d.
\* stage: how far the method got before it raised ("done": it returned).
load_snapshot(m, f, d) ==
    IF ~f.readable THEN [stage |-> "torch.load", model |-> m, epochs_run |-> 0, touched |-> {}]
    ELSE IF ~device_ok(d)
    THEN [stage |-> "map_location", model |-> m, epochs_run |-> 0, touched |-> {d.index}]
    ELSE LET t == IF d.type = "cuda" THEN {d.index} ELSE {} IN
         IF "MODEL_STATE" \notin f.fields \/ ~load_state_dict_ok(m, f.keys)
         THEN [stage |-> "load_state_dict", model |-> m, epochs_run |-> 0, touched |-> t]
         ELSE LET loaded == [m EXCEPT !.params = f.MODEL_STATE] IN
              IF "EPOCHS_RUN" \notin f.fields
              THEN [stage |-> "EPOCHS_RUN", model |-> loaded, epochs_run |-> 0, touched |-> t]
              ELSE [stage |-> "done", model |-> loaded, epochs_run |-> f.EPOCHS_RUN,
                    touched |-> t]

\* A Trainer.__init__ in which rank 0 writes a first snapshot of the model it
\* has just built, before the DistributedDataParallel constructor.
Trainer_init_saving(p) ==
    /\ pc[p] = "Trainer"
    /\ ~environ_index_raises(environ[p], "RANK")
    /\ trainer' = [trainer EXCEPT ![p] =
           [built |-> FALSE, local_rank |-> trainer_local_rank(p),
            global_rank |-> environ_get(environ[p], "RANK", 0),
            epochs_run |-> IF snapshot_file.readable THEN snapshot_file.EPOCHS_RUN ELSE 0,
            device |-> trainer_device(p)]]
    /\ IF environ_get(environ[p], "RANK", 0) = 0
       THEN /\ snapshot_file' = SnapshotFile("plain", model[p].params, 0)
            /\ writes' = [writes EXCEPT ![p] = Append(@, 0)]
       ELSE UNCHANGED <<snapshot_file, writes>>
    /\ pc' = [pc EXCEPT ![p] = "DDP"]
    /\ UNCHANGED <<parameters, environ, num_devices, dataset_ok, bad_data, launch_file,
                   run, history, cuda_device, process_group, model, epoch, batch, log,
                   addressed, ran, completed>>

\* Trainer.__init__ up to the DistributedDataParallel constructor, where the
\* process waits for its peers.  trainer[p] holds the fields assigned so far,
\* also when the constructor raises.
Trainer_init(p) ==
    /\ pc[p] = "Trainer"
    /\ LET local_rank == trainer_local_rank(p)
           device == trainer_device(p)
           found == snapshot_file.exists
           got == load_snapshot(model[p], snapshot_file, device)
           loaded_ok == ~found \/ got.stage = "done"
       IN IF environ_index_raises(environ[p], "RANK")
          THEN \* self.global_rank = int(os.environ["RANK"]): KeyError
               /\ trainer' = [trainer EXCEPT ![p].local_rank = local_rank]
               /\ Raise(p)
               /\ UNCHANGED <<model, log, addressed>>
          ELSE IF device.type = "cuda" /\ device.index < 0
          THEN \* torch.device('cuda:-1'): a negative index is no device
               /\ trainer' = [trainer EXCEPT ![p].local_rank = local_rank,
                                             ![p].global_rank = environ_get(environ[p], "RANK", 0)]
               /\ Raise(p)
               /\ UNCHANGED <<model, log, addressed>>
          ELSE /\ trainer' = [trainer EXCEPT ![p] =
                      [built |-> FALSE, local_rank |-> local_rank,
                       global_rank |-> environ_get(environ[p], "RANK", 0),
                       epochs_run |-> IF found THEN got.epochs_run ELSE 0,
                       device |-> device]]
               /\ log' = [log EXCEPT ![p] = @ \cup {Record("INFO", "using_device")}
                            \cup (IF found THEN {Record("INFO", "loading_snapshot")} ELSE {})
                            \cup (IF found /\ got.stage = "done"
                                  THEN {Record("INFO", "resuming")} ELSE {})]
               /\ model' = [model EXCEPT ![p] = IF found THEN got.model ELSE @]
               /\ addressed' = [addressed EXCEPT ![p] = @
                                  \cup (IF found THEN got.touched ELSE {})
                                  \cup (IF loaded_ok /\ device.type = "cuda"
                                        THEN {device.index} ELSE {})]
               /\ IF loaded_ok /\ device_ok(device)
                  THEN pc' = [pc EXCEPT ![p] = "DDP"]
                  ELSE Raise(p)
    /\ UNCHANGED <<parameters, environ, num_devices, dataset_ok, bad_data, snapshot_file, launch_file,
                   run, history, cuda_device, process_group, epoch, batch, ran, completed,
                   writes>>

\* The DistributedDataParallel constructor: a collective of all processes
\* that broadcasts the parameters of rank 0; Trainer(...) then returns.
DDP ==
    /\ \A p \in Procs : pc[p] = "DDP"
    /\ model' = [p \in Procs |-> [model[p] EXCEPT !.wrapped = TRUE, !.params = model[0].params]]
    /\ trainer' = [p \in Procs |-> [trainer[p] EXCEPT !.built = TRUE]]
    /\ pc' = [p \in Procs |-> "train"]
    /\ UNCHANGED <<parameters, environ, num_devices, dataset_ok, bad_data, snapshot_file, launch_file,
                   run, history, cuda_device, process_group, epoch, batch, log, addressed,
                   ran, completed, writes>>

\* The head of "for epoch in range(self.epochs_run, max_epochs)" reached with
\* next index e: enter _run_epoch(e), or leave the loop and return to main.
EnterEpoch(p, e) ==
    IF range_has(e, parameters.epochs)
    THEN /\ epoch' = [epoch EXCEPT ![p] = e]
         /\ batch' = [batch EXCEPT ![p] = 0]
         /\ ran' = [ran EXCEPT ![p] = Append(@, e)]
         /\ pc' = [pc EXCEPT ![p] = "run_batch"]
    ELSE /\ pc' = [pc EXCEPT ![p] = "destroy_process_group"]
         /\ UNCHANGED <<epoch, batch, ran>>

\* Trainer.train(max_epochs, backend): the loop starts at self.epochs_run.
train(p) ==
    /\ pc[p] = "train"
    /\ EnterEpoch(p, range_start(trainer[p].epochs_run))
    /\ UNCHANGED <<parameters, environ, num_devices, dataset_ok, bad_data, snapshot_file, launch_file,
                   run, history, cuda_device, process_group, trainer, model, log, addressed,
                   completed, writes>>

\* _run_batch up to the gradient synchronisation inside loss.backward():
\* zero_grad, forward, loss, local gradients.  A malformed batch raises in forward.
run_batch(p) ==
    /\ pc[p] = "run_batch"
    /\ IF [rank |-> p, batch |-> batch[p]] \in bad_data
       THEN /\ Raise(p)
            /\ UNCHANGED model
       ELSE /\ model' = [model EXCEPT ![p].grad = local_grad(p)]
            /\ pc' = [pc EXCEPT ![p] = "all_reduce"]
    /\ UNCHANGED <<parameters, environ, num_devices, dataset_ok, bad_data, snapshot_file, launch_file,
                   run, history, cuda_device, process_group, trainer, epoch, batch, log,
                   addressed, ran, completed, writes>>

\* An all-reduce that gives every waiting process a result without waiting
\* for the processes that have not arrived.
all_reduce_no_wait ==
    /\ \E p \in Procs : pc[p] = "all_reduce"
    /\ model' = [p \in Procs |->
                    IF pc[p] = "all_reduce"
                    THEN [model[p] EXCEPT !.grad = SumGrad(model, {q \in Procs : pc[q] = "all_reduce"})]
                    ELSE model[p]]
    /\ pc' = [p \in Procs |-> IF pc[p] = "all_reduce" THEN "optimizer_step" ELSE pc[p]]
    /\ UNCHANGED <<parameters, environ, num_devices, dataset_ok, bad_data, snapshot_file, launch_file,
                   run, history, cuda_device, process_group, trainer, epoch, batch, log,
                   addressed, ran, completed, writes>>

\* An all-reduce that returns to every process the gradient it came with.
all_reduce_local ==
    /\ \A p \in Procs : pc[p] = "all_reduce"
    /\ pc' = [p \in Procs |-> "optimizer_step"]
    /\ UNCHANGED <<parameters, environ, num_devices, dataset_ok, bad_data, snapshot_file, launch_file,
                   run, history, cuda_device, process_group, trainer, model, epoch, batch, log,
                   addressed, ran, completed, writes>>

\* The gradient all-reduce of DistributedDataParallel: completes when every
\* process has arrived, and leaves the same reduced gradient on each.
all_reduce ==
    /\ \A p \in Procs : pc[p] = "all_reduce"
    /\ model' = [p \in Procs |-> [model[p] EXCEPT !.grad = SumGrad(model, Procs)]]
    /\ pc' = [p \in Procs |-> "optimizer_step"]
    /\ UNCHANGED <<parameters, environ, num_devices, dataset_ok, bad_data, snapshot_file, launch_file,
                   run, history, cuda_device, process_group, trainer, epoch, batch, log,
                   addressed, ran, completed, writes>>

\* self.optimizer.step(), then the next batch of the epoch or the return of _run_epoch.
optimizer_step(p) ==
    /\ pc[p] = "optimizer_step"
    /\ model' = [model EXCEPT ![p].params = @ + model[p].grad]
    /\ IF batch[p] + 1 < NumBatches
       THEN /\ batch' = [batch EXCEPT ![p] = @ + 1]
            /\ pc' = [pc EXCEPT ![p] = "run_batch"]
            /\ UNCHANGED completed
       ELSE /\ completed' = [completed EXCEPT ![p] = Append(@, epoch[p])]
            /\ pc' = [pc EXCEPT ![p] = "epoch_end"]
            /\ UNCHANGED batch
    /\ UNCHANGED <<parameters, environ, num_devices, dataset_ok, bad_data, snapshot_file, launch_file,
                   run, history, cuda_device, process_group, trainer, epoch, log,
                   addressed, ran, writes>>

\* Trainer.train after _run_epoch(epoch) returned: rank 0 starts _save_snapshot when
\* the epoch is due (torch.save opens and truncates snapshot_path); otherwise the
\* loop goes on.
epoch_end(p) ==
    /\ pc[p] = "epoch_end"
    /\ IF save_due(trainer[p].global_rank, epoch[p], parameters.save_every)
       THEN /\ snapshot_file' = PartialFile
            /\ writes' = [writes EXCEPT ![p] = Append(@, epoch[p])]
            /\ pc' = [pc EXCEPT ![p] = "save_snapshot"]
            /\ UNCHANGED <<epoch, batch, ran>>
       ELSE /\ EnterEpoch(p, epoch[p] + 1)
            /\ UNCHANGED <<snapshot_file, writes>>
    /\ UNCHANGED <<parameters, environ, num_devices, dataset_ok, bad_data, launch_file,
                   run, history, cuda_device, process_group, trainer, model, log,
                   addressed, completed>>

\* Mutant of snapshot_of: the count of completed epochs is stored.
snapshot_of_count(m, e) == SnapshotFile(state_dict_keys(m), m.params, e + 1)

\* The snapshot _save_snapshot(epoch) stores.
snapshot_of(m, e) == SnapshotFile(state_dict_keys(m), m.params, e)

\* A _save_snapshot that ends with dist.barrier(): a collective inside the
\* rank-0-only branch, which no other rank ever issues.
save_snapshot_barrier(p) ==
    /\ pc[p] = "save_snapshot"
    /\ snapshot_file' = snapshot_of(model[p], epoch[p])
    /\ pc' = [pc EXCEPT ![p] = "barrier"]
    /\ UNCHANGED <<parameters, environ, num_devices, dataset_ok, bad_data, launch_file,
                   run, history, cuda_device, process_group, trainer, model, epoch, batch,
                   log, addressed, ran, completed, writes>>

\* _save_snapshot(epoch): torch.save completes; then the loop goes on.
save_snapshot(p) ==
    /\ pc[p] = "save_snapshot"
    /\ snapshot_file' = snapshot_of(model[p], epoch[p])
    /\ log' = [log EXCEPT ![p] = @ \cup {Record("INFO", "snapshot_saved")}]
    /\ EnterEpoch(p, epoch[p] + 1)
    /\ UNCHANGED <<parameters, environ, num_devices, dataset_ok, bad_data, launch_file,
                   run, history, cuda_device, process_group, trainer, model,
                   addressed, completed, writes>>

\* The process is terminated from outside while torch.save is writing
\* snapshot_path: torch.save opened the path itself for writing, so what has
\* been written so far stays there. (Terminating a process anywhere else leaves
\* snapshot_path as it was and is not modelled.)
Kill(p) ==
    /\ pc[p] = "save_snapshot"
    /\ pc' = [pc EXCEPT ![p] = "killed"]
    /\ UNCHANGED <<parameters, environ, num_devices, dataset_ok, bad_data, snapshot_file,
                   launch_file, run, history, cuda_device, process_group, trainer, model,
                   epoch, batch, log, addressed, ran, completed, writes>>

\* dist.destroy_process_group(), the last statement of main.
destroy_process_group(p) ==
    /\ pc[p] = "destroy_process_group"
    /\ process_group' = [process_group EXCEPT ![p].state = "destroyed",
                                              ![p].destroyed = @ + 1]
    /\ pc' = [pc EXCEPT ![p] = "done"]
    /\ UNCHANGED <<parameters, environ, num_devices, dataset_ok, bad_data, snapshot_file, launch_file,
                   run, history, cuda_device, trainer, model, epoch, batch, log,
                   addressed, ran, completed, writes>>

\* A process waiting at a collective whose peer has exited: the transport gives
\* up and the collective raises.
CollectiveAbort(p) ==
    /\ pc[p] \in {"DDP", "all_reduce"}
    /\ \E q \in Procs : pc[q] \in {"failed", "done", "killed"}
    /\ Raise(p)
    /\ UNCHANGED <<parameters, environ, num_devices, dataset_ok, bad_data, snapshot_file, launch_file,
                   run, history, cuda_device, process_group, trainer, model, epoch, batch,
                   log, addressed, ran, completed, writes>>

\* The job is launched again with the same parameters against the same
\* snapshot_path once every process of the previous launch has exited.
Relaunch ==
    /\ run < MaxRuns
    /\ \A p \in Procs : pc[p] \in {"done", "failed", "killed"}
    /\ run' = run + 1
    /\ history' = Append(history, [pc |-> pc, ran |-> ran, completed |-> completed,
                                   writes |-> writes, launch_file |-> launch_file])
    /\ launch_file' = snapshot_file
    /\ pc' = [p \in Procs |-> "ddp_setup"]
    /\ cuda_device' = [p \in Procs |-> {}]
    /\ process_group' = [p \in Procs |-> NoGroup]
    /\ trainer' = [p \in Procs |-> NoTrainer]
    /\ model' = [p \in Procs |-> Net(p)]
    /\ epoch' = [p \in Procs |-> 0]
    /\ batch' = [p \in Procs |-> 0]
    /\ log' = [p \in Procs |-> {}]
    /\ addressed' = [p \in Procs |-> {}]
    /\ ran' = [p \in Procs |-> <<>>]
    /\ completed' = [p \in Procs |-> <<>>]
    /\ writes' = [p \in Procs |-> <<>>]
    /\ UNCHANGED <<parameters, environ, num_devices, dataset_ok, bad_data, snapshot_file>>

Next ==
    \/ \E p \in Procs : ddp_setup(p)
    \/ \E p \in Procs : load_train_objs(p)
    \/ \E p \in Procs : Trainer_init(p)
    \/ DDP
    \/ \E p \in Procs : train(p)
    \/ \E p \in Procs : run_batch(p)
    \/ all_reduce
    \/ \E p \in Procs : optimizer_step(p)
    \/ \E p \in Procs : epoch_end(p)
    \/ \E p \in Procs : save_snapshot(p)
    \/ \E p \in Procs : Kill(p)
    \/ \E p \in Procs : destroy_process_group(p)
    \/ \E p \in Procs : CollectiveAbort(p)
    \/ Relaunch

Spec == Init /\ [][Next]_vars

\* The steps the processes of a launch take by themselves: every process is an
\* operating-system process of its own and runs whenever it is not waiting at a
\* collective, and a collective completes once every process has arrived.
\* Termination from outside and a new launch are not owed to anybody.
Progress ==
    \/ \E p \in Procs : ddp_setup(p)
    \/ \E p \in Procs : load_train_objs(p)
    \/ \E p \in Procs : Trainer_init(p)
    \/ DDP
    \/ \E p \in Procs : train(p)
    \/ \E p \in Procs : run_batch(p)
    \/ all_reduce
    \/ \E p \in Procs : optimizer_step(p)
    \/ \E p \in Procs : epoch_end(p)
    \/ \E p \in Procs : save_snapshot(p)
    \/ \E p \in Procs : destroy_process_group(p)
    \/ \E p \in Procs : CollectiveAbort(p)

\* The launches whose data are well formed.
InitCleanData == InitTraining \/ InitDevices

FairSpec == InitCleanData /\ [][Next]_vars /\ WF_vars(Progress)

(* -------------------------------------------------------------- claims *)
AllDone == \A p \in Procs : pc[p] = "done"

Last(q) == q[Len(q)]

Max(S) == CHOOSE x \in S : \A y \in S : y <= x

\* The epochs of a full run after which a snapshot is due.
DueEpochs == {e \in 0..(parameters.epochs - 1) : e % parameters.save_every = 0}

\* Trainer.__init__ has been entered by process p in this launch.
Constructing(p) == dataset_ok /\ pc[p] \notin {"ddp_setup", "load_train_objs", "Trainer"}

\* The previous launch started without a snapshot and every process of it
\* returned from main.
PreviousRunComplete ==
    /\ history # <<>>
    /\ Last(history).launch_file = NoFile
    /\ \A p \in Procs : Last(history).pc[p] = "done"

\* C1 (as claimed): after a run of train(N) from scratch has completed, a second
\* run against the same snapshot_path with max_epochs = N has epochs_run = N
\* after loading, executes no epoch and writes no snapshot.
C1_ResumeIdempotent ==
    PreviousRunComplete =>
        \A p \in Procs :
            Record("INFO", "resuming") \in log[p] =>
                /\ trainer[p].epochs_run = parameters.epochs
                /\ ran[p] = <<>>
                /\ writes[p] = <<>>

\* C2 (as claimed): a snapshot written by the run stores (index of the epoch
\* completed when it was written) + 1, and a run resumed from the snapshot a
\* complete run left repeats none of the epochs completed before it was written.
C2_SnapshotInvariant ==
    /\ \A p \in Procs :
          (writes[p] # <<>> /\ pc[p] # "save_snapshot" /\ snapshot_file.readable)
              => snapshot_file.EPOCHS_RUN = Last(writes[p]) + 1
    /\ PreviousRunComplete =>
          \A p \in Procs : \A i \in 1..Len(ran[p]) :
              \A j \in 1..Len(Last(history).completed[0]) :
                  Last(history).completed[0][j] <= Last(Last(history).writes[0])
                      => ran[p][i] # Last(history).completed[0][j]

\* C3: a run started with no snapshot at snapshot_path and save_every <= epochs
\* never writes more than |{e in [0, epochs) : e mod save_every = 0}| snapshots,
\* has written exactly that many when every process has returned from main,
\* all of them on global rank 0 and none on any other rank.
C3_WriteCount ==
    (launch_file = NoFile /\ parameters.save_every <= parameters.epochs) =>
        \A p \in Procs :
            /\ Len(writes[p]) <= Cardinality(DueEpochs)
            /\ (environ[p].RANK # {0}) => writes[p] = <<>>
            /\ (AllDone /\ environ[p].RANK = {0})
                   => Len(writes[p]) = Cardinality(DueEpochs)

C3_Witness ==
    /\ launch_file = NoFile
    /\ AllDone
    /\ Cardinality(Procs) = 2
    /\ parameters.epochs = 2 /\ parameters.save_every = 1
    /\ Len(writes[0]) = 2 /\ writes[1] = <<>>

\* C4: on every rank that loaded a snapshot with stored epochs_run = k, the
\* first epoch index the train loop executes is k.
C4_ResumeStart ==
    \A p \in Procs :
        (launch_file.readable /\ ran[p] # <<>>) => ran[p][1] = launch_file.EPOCHS_RUN

C4_Witness ==
    \E p \in Procs :
        /\ launch_file.readable /\ launch_file.EPOCHS_RUN = 1
        /\ trainer[p].built /\ trainer[p].epochs_run = 1
        /\ ran[p] # <<>> /\ ran[p][1] = 1

\* C5: a completed snapshot write after epoch e leaves EPOCHS_RUN = e in the file;
\* when a run started without a snapshot has returned on every process the file
\* holds the largest e in [0, epochs) with e mod save_every = 0; and with
\* epochs = 2, save_every = 1, two processes, gloo and no accelerator, the writes
\* are those after epochs 0 and 1, both by rank 0, and the file ends with 1.
C5_FinalStored ==
    /\ \A p \in Procs :
          (writes[p] # <<>> /\ pc[p] \notin {"save_snapshot", "killed"})
              => (snapshot_file.readable /\ snapshot_file.EPOCHS_RUN = Last(writes[p]))
    /\ (launch_file = NoFile /\ AllDone)
          => (snapshot_file.readable /\ snapshot_file.EPOCHS_RUN = Max(DueEpochs))
    /\ (/\ launch_file = NoFile /\ AllDone
        /\ parameters = [epochs |-> 2, save_every |-> 1, backend |-> "gloo"]
        /\ num_devices = 0 /\ Cardinality(Procs) = 2)
          => (/\ writes[0] = <<0, 1>> /\ writes[1] = <<>>
              /\ trainer[0].global_rank = 0
              /\ snapshot_file.EPOCHS_RUN = 1)

C5_Witness ==
    /\ launch_file = NoFile /\ AllDone
    /\ parameters = [epochs |-> 2, save_every |-> 1, backend |-> "gloo"]
    /\ num_devices = 0 /\ Cardinality(Procs) = 2
    /\ writes[0] = <<0, 1>>
    /\ snapshot_file.EPOCHS_RUN = 1

\* C6: only the process whose global rank is 0 ever writes snapshot_path, and no
\* two processes are inside a snapshot write at the same time.
C6_SingleWriter ==
    /\ \A p \in Procs :
          (writes[p] # <<>> \/ pc[p] = "save_snapshot")
              => (environ[p].RANK = {0} /\ trainer[p].global_rank = 0)
    /\ Cardinality({p \in Procs : pc[p] = "save_snapshot"}) <= 1

C6_Witness ==
    /\ Cardinality(Procs) = 2
    /\ \E p, q \in Procs :
          /\ pc[p] = "save_snapshot" /\ trainer[p].global_rank = 0
          /\ q # p /\ pc[q] = "epoch_end" /\ epoch[q] = epoch[p]

\* C7 (as claimed): a process that has initialised the process group and has
\* exited has destroyed it exactly once, whatever raised on the way; and the
\* group is never destroyed before the epoch loop has ended.
C7_GuaranteedTeardown ==
    \A p \in Procs :
        /\ (pc[p] \in {"done", "failed"} /\ process_group[p].state # "none")
               => process_group[p].destroyed = 1
        /\ process_group[p].destroyed <= 1
        /\ process_group[p].destroyed > 0 => pc[p] = "done"

\* C8 (as claimed): with an accelerator, backend nccl and LOCAL_RANK >= device
\* count, the process is bound to device 0 with a warning, the Trainer's device
\* is device 0 too, and no device index >= device count is ever addressed.
C8_LocalRankClamped ==
    \A p \in Procs :
        (/\ use_cuda
         /\ environ[p].LOCAL_RANK # {}
         /\ environ_get(environ[p], "LOCAL_RANK", 0) >= num_devices) =>
            /\ \A d \in addressed[p] : 0 <= d /\ d < num_devices
            /\ process_group[p].state # "none" =>
                   (/\ cuda_device[p] = {0}
                    /\ Record("WARNING", "invalid_device_ordinal") \in log[p])
            /\ (Constructing(p) /\ environ[p].RANK # {}) => trainer[p].device = Cuda(0)

\* C9 (as claimed): with LOCAL_RANK absent (accelerator available, backend
\* nccl, so that both reads decide a device) the local rank is 0 at both reads:
\* ddp_setup binds device 0, the Trainer's local_rank is 0 and the Trainer
\* places the model on device 0.
C9_LocalRankDefault ==
    \A p \in Procs :
        (environ[p].LOCAL_RANK = {} /\ use_cuda) =>
            /\ process_group[p].state # "none" => cuda_device[p] = {0}
            /\ Constructing(p) => trainer[p].local_rank = 0
            /\ (Constructing(p) /\ environ[p].RANK # {}) =>
                   (trainer[p].device = Cuda(0) /\ \A d \in addressed[p] : d = 0)

\* C10 (as claimed): with nccl requested and no accelerator, the group is
\* initialised with gloo, a WARNING record reports the fallback, the Trainer
\* selects the CPU; and the fallback record appears only in that situation.
C10_DeviceFallback ==
    \A p \in Procs :
        process_group[p].state # "none" =>
            /\ (parameters.backend = "nccl" /\ ~cuda_is_available) =>
                   /\ process_group[p].backend = "gloo"
                   /\ Record("WARNING", "no_gpu_fallback_cpu") \in log[p]
                   /\ (Constructing(p) /\ environ[p].RANK # {}) => trainer[p].device = CPU
            /\ (\E r \in log[p] : r.msg = "no_gpu_fallback_cpu") =>
                   (parameters.backend = "nccl" /\ ~cuda_is_available)

\* C11 (as claimed): when the first launch did not itself start from an
\* unreadable file, no launch finds snapshot_path partially written, also when
\* rank 0 of an earlier launch was terminated during a snapshot write: the
\* path holds no file or a complete snapshot.
C11_AtomicWrite ==
    (history # <<>> /\ (history[1].launch_file = NoFile \/ history[1].launch_file.readable))
        => (launch_file = NoFile \/ launch_file.readable)

\* C12: a process launched without RANK raises in Trainer.__init__ and ends
\* failed: it never enters the epoch loop, starts no epoch, runs no batch and
\* opens no snapshot for writing, and snapshot_path stays what the launch found.
C12_MissingRankFatal ==
    \A p \in Procs :
        environ[p].RANK = {} =>
            /\ pc[p] \in {"ddp_setup", "load_train_objs", "Trainer", "failed"}
            /\ Constructing(p) => pc[p] = "failed"
            /\ ~trainer[p].built
            /\ ran[p] = <<>> /\ completed[p] = <<>> /\ writes[p] = <<>>
            /\ snapshot_file = launch_file

C12_Witness ==
    \E p \in Procs :
        /\ environ[p].RANK = {}
        /\ Constructing(p) /\ pc[p] = "failed"
        /\ process_group[p].state = "initialized"
        /\ launch_file.readable /\ snapshot_file = launch_file

\* The file the launch found exists but cannot be read or lacks a field.
CorruptAtLaunch ==
    /\ launch_file.exists
    /\ (~launch_file.readable \/ launch_file.fields # {"MODEL_STATE", "EPOCHS_RUN"})

\* C13: when snapshot_path holds a file that is unreadable or lacks MODEL_STATE
\* or EPOCHS_RUN, every process that enters Trainer.__init__ ends failed there:
\* no Trainer is built, no process reports a resume, no epoch is started from
\* the partly restored state, no snapshot is opened for writing and the file
\* stays exactly as the launch found it.
C13_CorruptSnapshotFatal ==
    CorruptAtLaunch =>
        /\ snapshot_file = launch_file
        /\ \A p \in Procs :
              /\ Constructing(p) => pc[p] = "failed"
              /\ ~trainer[p].built
              /\ Record("INFO", "resuming") \notin log[p]
              /\ ran[p] = <<>> /\ completed[p] = <<>> /\ writes[p] = <<>>

\* A process has restored the weights of a file without EPOCHS_RUN and failed.
C13_Witness ==
    \E p \in Procs :
        /\ launch_file.readable /\ launch_file.fields = {"MODEL_STATE"}
        /\ environ[p].RANK # {}
        /\ pc[p] = "failed"
        /\ Record("INFO", "loading_snapshot") \in log[p]
        /\ model[p].params = launch_file.MODEL_STATE
        /\ model[p].params # Net(p).params
        /\ snapshot_file = launch_file

\* The launch found the snapshot that rank 0 of the previous launch wrote to the
\* end, under the same parameters, devices and environment.
WrittenByPreviousRun ==
    /\ history # <<>>
    /\ Last(history).writes[0] # <<>>
    /\ Last(history).pc[0] # "killed"
    /\ launch_file = snapshot_of([Net(0) EXCEPT !.wrapped = TRUE,
                                               !.params = launch_file.MODEL_STATE],
                                 Last(Last(history).writes[0]))

\* C14 (as claimed): a snapshot that _save_snapshot wrote is accepted by
\* _load_snapshot in the next launch of the same configuration, whatever the
\* device and backend: it is stored under the keys of the unwrapped model, and
\* every process that gets through Trainer.__init__ has loaded its parameters
\* and its epoch count.
C14_SnapshotRoundTrip ==
    WrittenByPreviousRun =>
        /\ launch_file.keys = "plain"
        /\ \A p \in Procs :
              Constructing(p) =>
                  /\ Record("INFO", "resuming") \in log[p]
                  /\ trainer[p].epochs_run = launch_file.EPOCHS_RUN
                  /\ (pc[p] = "DDP" => model[p].params = launch_file.MODEL_STATE)

\* Process p has not yet got to the snapshot check of Trainer.__init__.
BeforeStartupRead(p) == pc[p] \in {"ddp_setup", "load_train_objs", "Trainer"}

\* C15: while any process has still to make its startup read of snapshot_path,
\* no process has opened a snapshot for writing in this launch and the path
\* holds what the launch found; so every process that got through the
\* constructor took its epochs_run from that same file, and all processes that
\* enter the epoch loop enter it at the same epoch index.
C15_LoadBeforeWrite ==
    /\ (\E q \in Procs : BeforeStartupRead(q)) =>
          /\ snapshot_file = launch_file
          /\ \A p \in Procs : writes[p] = <<>> /\ pc[p] # "save_snapshot"
    /\ \A p \in Procs :
          (Constructing(p) /\ pc[p] # "failed") =>
              trainer[p].epochs_run = (IF launch_file.exists THEN launch_file.EPOCHS_RUN ELSE 0)
    /\ \A p, q \in Procs :
          (ran[p] # <<>> /\ ran[q] # <<>>) => ran[p][1] = ran[q][1]

\* Rank 0 is writing while the other rank, which resumed from the same file,
\* is in the loop it entered at the stored index.
C15_Witness ==
    /\ Cardinality(Procs) = 2
    /\ launch_file.readable /\ launch_file.EPOCHS_RUN = 1
    /\ pc[0] = "save_snapshot" /\ writes[0] # <<>>
    /\ Record("INFO", "resuming") \in log[1]
    /\ ran[0] # <<>> /\ ran[1] # <<>> /\ ran[0][1] = 1 /\ ran[1][1] = 1

\* Every process is at the head of the epoch loop, and no batch is malformed.
LoopEntered == (\A p \in Procs : pc[p] = "train") /\ bad_data = {}

\* Every process has returned from main with its process group destroyed.
AllTornDown ==
    \A p \in Procs : pc[p] = "done" /\ process_group[p].state = "destroyed"

\* The processes waiting at the gradient all-reduce wait for the same one.
SameCollective ==
    \A p, q \in Procs :
        (pc[p] = "all_reduce" /\ pc[q] = "all_reduce")
            => (epoch[p] = epoch[q] /\ batch[p] = batch[q])

\* C16: the processes enter the loop at the same index (C15) with the same
\* epochs and batches; then the all-reduces they wait at are always the same
\* one (same epoch, same batch), a snapshot write by rank 0 is no collective
\* and holds nobody up for ever, and, no batch being malformed, every process
\* eventually returns from main with its process group destroyed, unless
\* a process is terminated from outside.
C16_CollectiveTermination ==
    /\ []SameCollective
    /\ LoopEntered ~> (AllTornDown \/ \E p \in Procs : pc[p] = "killed")

\* Two processes have run two epochs, rank 0 has written twice, all torn down.
C16_Witness ==
    /\ Cardinality(Procs) = 2 /\ bad_data = {}
    /\ AllTornDown
    /\ \A p \in Procs : completed[p] = <<0, 1>>
    /\ writes[0] = <<0, 1>>

\* Process q has completed the first gradient synchronisation of epoch e.
SyncedIn(q, e) ==
    \/ epoch[q] > e
    \/ /\ epoch[q] = e /\ Len(ran[q]) > 0 /\ Last(ran[q]) = e
       /\ (batch[q] > 0 \/ pc[q] \in {"optimizer_step", "epoch_end", "save_snapshot"}
                      \/ e \in {completed[q][i] : i \in 1..Len(completed[q])})

\* C17: while rank 0 is inside the snapshot write for epoch e, another rank
\* may already have started epoch e + 1 (the witness), but no rank has
\* completed the first gradient synchronisation of epoch e + 1.
C17_RelaxedConsistency ==
    \A p \in Procs :
        pc[p] = "save_snapshot" =>
            \A q \in Procs :
                /\ ~SyncedIn(q, epoch[p] + 1)
                /\ epoch[q] <= epoch[p] + 1
                /\ epoch[q] = epoch[p] + 1 => pc[q] \in {"run_batch", "all_reduce", "failed"}

\* A non-zero rank has computed its gradients of the first batch of epoch
\* e + 1 and waits at the all-reduce while rank 0 still writes for epoch e.
C17_Witness ==
    \E p, q \in Procs :
        /\ trainer[p].global_rank = 0 /\ pc[p] = "save_snapshot"
        /\ trainer[q].global_rank # 0
        /\ epoch[q] = epoch[p] + 1 /\ Last(ran[q]) = epoch[p] + 1
        /\ pc[q] = "all_reduce" /\ batch[q] = 0

\* The number of optimizer steps process p has applied in this launch.
StepsApplied(p) ==
    Len(completed[p]) * NumBatches
        + (IF Len(ran[p]) > Len(completed[p]) THEN batch[p] ELSE 0)

\* C18 (as claimed): whenever rank 0 is writing a snapshot, all ranks hold the
\* parameters rank 0 holds.
C18_ReplicasEqualAtWrite ==
    \A p \in Procs :
        pc[p] = "save_snapshot" =>
            \A q \in Procs : model[q].params = model[p].params

\* C18 (amended): every batch has one gradient synchronisation, after the
\* local gradients and before the optimizer step, so any two ranks that have
\* applied the same number of optimizer steps hold identical parameters, and
\* a rank waiting to step holds the reduced gradient every rank holds; while
\* rank 0 writes, another rank has applied as many steps as rank 0 or one
\* fewer (it has the reduced gradient and has still to apply it).
C18_ReplicaConsistency ==
    \A p, q \in Procs :
        (trainer[p].built /\ trainer[q].built) =>
            /\ StepsApplied(p) = StepsApplied(q) => model[p].params = model[q].params
            /\ (pc[p] = "optimizer_step" /\ pc[q] = "optimizer_step")
                   => model[p].grad = model[q].grad
            /\ pc[p] = "save_snapshot" =>
                   \/ StepsApplied(q) = StepsApplied(p)
                   \/ /\ StepsApplied(q) + 1 = StepsApplied(p)
                      /\ pc[q] = "optimizer_step"
                      /\ model[q].params + model[q].grad = model[p].params

\* Rank 0 writes its parameters while the other rank, one step behind, has the
\* reduced gradient of the last batch and has not applied it yet.
C18_Witness ==
    \E p, q \in Procs :
        /\ pc[p] = "save_snapshot" /\ pc[q] = "optimizer_step"
        /\ StepsApplied(q) + 1 = StepsApplied(p)
        /\ model[q].params # model[p].params
        /\ model[q].params + model[q].grad = model[p].params

\* The epochs_run a Trainer has after construction in this launch.
StartEpoch == IF launch_file.exists THEN launch_file.EPOCHS_RUN ELSE 0

\* The epoch indices process p has started are StartEpoch, StartEpoch + 1, ...
\* in this order, each once and all below epochs, and all of them up to
\* epochs - 1 once the loop has ended.
EpochsInOrder(p) ==
    /\ \A i \in 1..Len(ran[p]) : ran[p][i] = StartEpoch + i - 1 /\ ran[p][i] < parameters.epochs
    /\ \A i \in 1..Len(completed[p]) : completed[p][i] = ran[p][i]
    /\ Len(ran[p]) - Len(completed[p]) \in {0, 1}
    /\ pc[p] \in {"destroy_process_group", "done"} =>
           (/\ completed[p] = ran[p]
            /\ Len(ran[p]) = (IF StartEpoch < parameters.epochs
                               THEN parameters.epochs - StartEpoch ELSE 0))

\* C19 (as claimed): a Trainer built with epochs_run = N executes the epochs
\* N, N + 1, ..., epochs - 1 in increasing order, each once, and its epoch
\* counter self.epochs_run equals e + 1 once epoch e has completed.
C19_EpochProgression ==
    \A p \in Procs :
        trainer[p].built =>
            /\ EpochsInOrder(p)
            /\ completed[p] # <<>> => trainer[p].epochs_run = Last(completed[p]) + 1

====
